---- MODULE Spec2Model ----
(***************************************************************************)
(* Model of parse_tree_text (project_structure_generator.py): the parser   *)
(* that turns a tree drawing into a nested mapping.  Text is modelled as   *)
(* sequences of one-character strings so that stripping, splitting and the *)
(* entry pattern are computed character by character.                      *)
(***************************************************************************)
EXTENDS Integers, Sequences, FiniteSets, TLC

\* ------------------------------------------------------------------------
\* Characters.  The box-drawing characters of the pattern are written with
\* ASCII stand-ins: TEE for U+251C, ELL for U+2514, DASH for U+2500 and
\* BAR for U+2502.
SP == " "
TAB == "\t"
TEE == "T"
ELL == "L"
DASH == "-"
BAR == "|"
SLASH == "/"
HASH == "#"

\* Whitespace as str.strip() / str.rstrip() and the regex class \s see it.
IsSpace(c) == c \in {SP, TAB}

\* The character class [\s│] of the pattern's first group.
IsIndentChar(c) == IsSpace(c) \/ c = BAR

\* The two alternatives of the pattern's second group.
Glyphs == {<<TEE, DASH, DASH, SP>>, <<ELL, DASH, DASH, SP>>}

\* ------------------------------------------------------------------------
\* Bounds of the model.
MaxLines == 3

\* ------------------------------------------------------------------------
\* String helpers.
RECURSIVE RStrip(_)
\* str.rstrip(): drop trailing whitespace.
RStrip(s) ==
  IF s # <<>> /\ IsSpace(s[Len(s)]) THEN RStrip(SubSeq(s, 1, Len(s) - 1)) ELSE s

RECURSIVE LStrip(_)
LStrip(s) ==
  IF s # <<>> /\ IsSpace(s[1]) THEN LStrip(Tail(s)) ELSE s

\* str.strip(): drop leading and trailing whitespace.
Strip(s) == LStrip(RStrip(s))

\* Dropping one trailing '/' only.
RStripSlashOnce(s) ==
  IF s # <<>> /\ s[Len(s)] = SLASH THEN SubSeq(s, 1, Len(s) - 1) ELSE s

RECURSIVE RStripSlash(_)
\* str.rstrip("/"): drop every trailing '/'.
RStripSlash(s) ==
  IF s # <<>> /\ s[Len(s)] = SLASH THEN RStripSlash(SubSeq(s, 1, Len(s) - 1)) ELSE s

\* str.endswith("/")
EndsWithSlash(s) == s # <<>> /\ s[Len(s)] = SLASH

RECURSIVE BeforeHash(_)
\* s.split("#")[0]: the text before the first '#'.
BeforeHash(s) ==
  IF s = <<>> \/ s[1] = HASH THEN <<>> ELSE <<s[1]>> \o BeforeHash(Tail(s))

RECURSIVE IndentLen(_)
\* Length of the longest prefix made of [\s│] characters.  The first group
\* of the pattern is greedy and a glyph starts with a character outside the
\* class, so a match can only take this whole prefix as its indentation.
IndentLen(s) ==
  IF s # <<>> /\ IsIndentChar(s[1]) THEN 1 + IndentLen(Tail(s)) ELSE 0

\* The pattern with an optional name, (.*) for (.+), and the blank of the
\* glyph optional.
MatchesWithoutName(line) ==
  LET n == IndentLen(line) IN
    /\ Len(line) >= n + 3
    /\ \E g \in Glyphs : SubSeq(line, n + 1, n + 3) = SubSeq(g, 1, 3)

\* pattern.match(line) is not None
Matches(line) ==
  LET n == IndentLen(line) IN
    /\ Len(line) >= n + 5
    /\ SubSeq(line, n + 1, n + 4) \in Glyphs

\* match.groups()[0] and match.groups()[2]
IndentOf(line) == SubSeq(line, 1, IndentLen(line))
RestOf(line) == SubSeq(line, IndentLen(line) + 5, Len(line))

\* The name without .strip().
NameOfNoStrip(line) == BeforeHash(RestOf(line))

\* name = name_with_comment.split("#")[0].strip()
NameOf(line) == Strip(BeforeHash(RestOf(line)))

\* level = len(indent.replace("│", " ")) // 4 + 1
LevelOf(line) == Len(IndentOf(line)) \div 4 + 1

\* ------------------------------------------------------------------------
\* The text files the model reads: every sequence of at most MaxLines lines
\* drawn from InputLines.
Spaces(n) == [k \in 1..n |-> SP]

InputLines ==
  { <<"a", SLASH>>,                                          \* root line
    <<SP, "a", SLASH, SLASH>>,                               \* root line, padded
    <<>>,                                                    \* empty line
    <<SP, TAB>>,                                             \* whitespace only
    <<"*">>,                                                 \* not an entry
    <<TEE, DASH, DASH, SP>>,                                 \* glyph without a name
    <<TEE, DASH, DASH, SP, "a", SLASH>>,                     \* depth 1 directory
    <<TEE, DASH, DASH, SP, "a", SP>>,                        \* depth 1 file
    <<ELL, DASH, DASH, SP, SP, "b", SLASH, SP, HASH, "c">>,  \* depth 1 directory, comment
    Spaces(4) \o <<TEE, DASH, DASH, SP, "a", SLASH>>,        \* depth 2 directory
    <<BAR>> \o Spaces(3) \o <<ELL, DASH, DASH, SP, "a", SP, HASH, SLASH>>, \* depth 2 file
    <<BAR>> \o Spaces(3) \o <<BAR>> \o Spaces(3) \o <<ELL, DASH, DASH, SP, "b", SLASH>>, \* depth 3
    <<SP, SP, TAB, SP, SP>> \o <<TEE, DASH, DASH, SP, "b">>, \* 5 characters: depth 2 file
    <<TEE, DASH, DASH, SP, HASH, "a">> }                     \* comment only

RECURSIVE SeqsUpTo(_, _)
SeqsUpTo(S, n) ==
  IF n = 0 THEN {<<>>}
  ELSE LET shorter == SeqsUpTo(S, n - 1) IN
         shorter \cup {Append(q, x) : q \in {r \in shorter : Len(r) = n - 1}, x \in S}

Inputs == SeqsUpTo(InputLines, MaxLines)

\* ------------------------------------------------------------------------
\* Values of the program.
\* project_name is None or a string.
None == [some |-> FALSE, val |-> <<>>]
Some(s) == [some |-> TRUE, val |-> s]

\* A dictionary is the sequence of its items in insertion order; an item's
\* val is NoDict for None (a file) or the identity of a dictionary (a
\* directory).
\* The identity of the root dictionary is RootId; the dictionary created for
\* an entry is identified by the position of its line among the non-blank
\* lines of the file.
RootId == 0
NoDict == 0 - 1

HasKey(d, name) == \E k \in 1..Len(d) : d[k].name = name
KeyIndex(d, name) == CHOOSE k \in 1..Len(d) : d[k].name = name

\* d.setdefault(name, v): an existing key keeps its value.
DictSetDefault(d, name, v) ==
  IF HasKey(d, name) THEN d ELSE Append(d, [name |-> name, val |-> v])

\* d[name] = v : an existing key keeps its place and takes the new value.
DictSet(d, name, v) ==
  IF HasKey(d, name)
  THEN [d EXCEPT ![KeyIndex(d, name)] = [name |-> name, val |-> v]]
  ELSE Append(d, [name |-> name, val |-> v])

\* lines = [line.rstrip() for line in f if line.strip() != '']
RECURSIVE Preprocess(_)
Preprocess(raw) ==
  IF raw = <<>> THEN <<>>
  ELSE IF Strip(raw[1]) = <<>> THEN Preprocess(Tail(raw))
       ELSE <<RStrip(raw[1])>> \o Preprocess(Tail(raw))

RECURSIVE PopWhileDeeper(_, _)
\* The loop with > for >=.
PopWhileDeeper(st, level) ==
  IF st # <<>> /\ st[Len(st)].level > level
  THEN PopWhileDeeper(SubSeq(st, 1, Len(st) - 1), level) ELSE st

RECURSIVE PopWhile(_, _)
\* while stack and stack[-1][0] >= level: stack.pop()
PopWhile(st, level) ==
  IF st # <<>> /\ st[Len(st)].level >= level
  THEN PopWhile(SubSeq(st, 1, Len(st) - 1), level) ELSE st

\* One pass of the loop body for a line that matches the pattern, on the
\* dictionaries h and the stack st; id identifies the dictionary the entry
\* creates when it is a directory.  ok is FALSE when stack[-1] raises.
AddEntryTo(h, st, line, id) ==
  LET name == NameOf(line)
      level == LevelOf(line)
      isdir == EndsWithSlash(name)
      popped == PopWhile(st, level)
  IN IF popped = <<>>
     THEN [ok |-> FALSE, heap |-> h, stack |-> popped]
     ELSE LET parent == popped[Len(popped)].dict
              h1 == IF isdir THEN (id :> <<>>) @@ h ELSE h
              h2 == [h1 EXCEPT ![parent] =
                       DictSet(h1[parent], name, IF isdir THEN id ELSE NoDict)]
          IN [ok |-> TRUE,
              heap |-> h2,
              stack |-> IF isdir
                        THEN Append(popped, [level |-> level, dict |-> id])
                        ELSE popped]

\* The nested mapping below dictionary id, as a value: the items in order,
\* each a file (dir = FALSE) or a directory with its own items.
RECURSIVE Tree(_, _)
Tree(h, id) ==
  [k \in 1..Len(h[id]) |->
     [name |-> h[id][k].name,
      dir |-> h[id][k].val # NoDict,
      kids |-> IF h[id][k].val # NoDict THEN Tree(h, h[id][k].val) ELSE <<>>]]

\* ------------------------------------------------------------------------
\* State.
VARIABLES
  input,         \* the lines of the file at config_path, without line ends
  lines,         \* the local variable lines
  project_name,  \* the local variable project_name
  heap,          \* the dictionaries created so far, by identity
  stack,         \* the local variable stack
  pos,           \* index into lines of the line the loop handles next
  pc             \* "read", "first", "loop", "done" or "error"

vars == <<input, lines, project_name, heap, stack, pos, pc>>

\* Number of lines removed from the front of the non-blank lines, so that
\* lines[k] is non-blank line k + Offset of the file.
Offset == Len(Preprocess(input)) - Len(lines)

Init ==
  /\ input \in Inputs
  /\ lines = <<>>
  /\ project_name = None
  /\ heap = (RootId :> <<>>)
  /\ stack = <<>>
  /\ pos = 1
  /\ pc = "read"

\* with open(config_path) as f: lines = [...]
ReadLines ==
  /\ pc = "read"
  /\ lines' = Preprocess(input)
  /\ pc' = "first"
  /\ UNCHANGED <<input, project_name, heap, stack, pos>>

\* first_line = lines[0] on an empty list: IndexError leaves the function.
FirstLineIndexError ==
  /\ pc = "first"
  /\ lines = <<>>
  /\ pc' = "error"
  /\ UNCHANGED <<input, lines, project_name, heap, stack, pos>>

\* The root-line test, then root_dict = {} and stack = [(0, root_dict)].
DetectRoot ==
  /\ pc = "first"
  /\ lines # <<>>
  /\ IF EndsWithSlash(lines[1])
        THEN /\ project_name' = Some(Strip(RStripSlash(lines[1])))
             /\ lines' = Tail(lines)
        ELSE /\ project_name' = None
             /\ lines' = lines
  /\ heap' = (RootId :> <<>>)
  /\ stack' = <<[level |-> 0, dict |-> RootId]>>
  /\ pos' = 1
  /\ pc' = "loop"
  /\ UNCHANGED input

\* A line that does not match the pattern: continue.
SkipLine ==
  /\ pc = "loop"
  /\ pos <= Len(lines)
  /\ ~Matches(lines[pos])
  /\ pos' = pos + 1
  /\ UNCHANGED <<input, lines, project_name, heap, stack, pc>>

\* A line that matches the pattern: the rest of the loop body.
AddEntry ==
  /\ pc = "loop"
  /\ pos <= Len(lines)
  /\ Matches(lines[pos])
  /\ LET r == AddEntryTo(heap, stack, lines[pos], pos + Offset) IN
       /\ heap' = r.heap
       /\ stack' = r.stack
       /\ pc' = IF r.ok THEN "loop" ELSE "error"
  /\ pos' = pos + 1
  /\ UNCHANGED <<input, lines, project_name>>

\* The loop is over: parse_tree_text returns (project_name, root_dict).
Return ==
  /\ pc = "loop"
  /\ pos > Len(lines)
  /\ pc' = "done"
  /\ UNCHANGED <<input, lines, project_name, heap, stack, pos>>

Next ==
  \/ ReadLines
  \/ FirstLineIndexError
  \/ DetectRoot
  \/ SkipLine
  \/ AddEntry
  \/ Return

Spec == Init /\ [][Next]_vars

TypeOK ==
  /\ pc \in {"read", "first", "loop", "done", "error"}
  /\ pos \in 1..(MaxLines + 1)

\* ------------------------------------------------------------------------
\* The loop as a function of the list it iterates over, and the value the
\* function returns for a file: used to compare the parse of one file with
\* the parse of another.
RECURSIVE LoopOver(_, _, _, _)
LoopOver(ls, k, h, st) ==
  IF k > Len(ls) THEN h
  ELSE IF ~Matches(ls[k]) THEN LoopOver(ls, k + 1, h, st)
       ELSE LET r == AddEntryTo(h, st, ls[k], k) IN
              LoopOver(ls, k + 1, r.heap, r.stack)

TreeOfLines(ls) ==
  Tree(LoopOver(ls, 1, (RootId :> <<>>), <<[level |-> 0, dict |-> RootId]>>), RootId)

ParseTreeText(raw) ==
  LET ls == Preprocess(raw) IN
    IF ls = <<>> THEN [error |-> TRUE, project_name |-> None, tree |-> <<>>]
    ELSE IF EndsWithSlash(ls[1])
         THEN [error |-> FALSE,
               project_name |-> Some(Strip(RStripSlash(ls[1]))),
               tree |-> TreeOfLines(Tail(ls))]
         ELSE [error |-> FALSE, project_name |-> None, tree |-> TreeOfLines(ls)]

\* What the run has returned, once pc = "done".
Returned == [error |-> FALSE, project_name |-> project_name, tree |-> Tree(heap, RootId)]

\* ------------------------------------------------------------------------
\* Vocabulary of the properties, defined on the text of the file alone.

\* A line with something other than whitespace on it.
HasInk(l) == \E k \in 1..Len(l) : ~IsSpace(l[k])

\* The line up to its last character that is not whitespace.
Trimmed(l) ==
  IF HasInk(l)
  THEN SubSeq(l, 1, CHOOSE k \in 1..Len(l) :
                      /\ ~IsSpace(l[k])
                      /\ \A j \in (k + 1)..Len(l) : IsSpace(l[j]))
  ELSE <<>>

\* The non-blank lines of the file, in order.
NonBlank ==
  LET kept == SelectSeq(input, HasInk) IN [k \in 1..Len(kept) |-> Trimmed(kept[k])]

\* n is the length of an indentation prefix of l that is followed by a
\* branch glyph and a non-empty rest.
EntryAt(l, n) ==
  /\ n \in 0..Len(l)
  /\ \A k \in 1..n : l[k] = SP \/ l[k] = TAB \/ l[k] = BAR
  /\ Len(l) > n + 4
  /\ l[n + 1] \in {TEE, ELL}
  /\ l[n + 2] = DASH /\ l[n + 3] = DASH /\ l[n + 4] = SP

\* An entry line: indentation, one branch glyph, a non-empty rest.
IsEntryLine(l) == \E n \in 0..Len(l) : EntryAt(l, n)
EntryIndent(l) == CHOOSE n \in 0..Len(l) : EntryAt(l, n)

\* depth = indentation characters integer-divided by 4, plus 1
EntryDepth(l) == (EntryIndent(l) \div 4) + 1

\* The stored name: the text after the glyph, cut at the first '#', without
\* the whitespace around it.
EntryName(l) ==
  LET from == EntryIndent(l) + 5
      hashes == {k \in from..Len(l) : l[k] = HASH}
      to == IF hashes = {} THEN Len(l)
            ELSE (CHOOSE k \in hashes : \A j \in hashes : k <= j) - 1
      ink == {k \in from..to : ~IsSpace(l[k])}
  IN IF ink = {} THEN <<>>
     ELSE SubSeq(l, CHOOSE k \in ink : \A j \in ink : k <= j,
                    CHOOSE k \in ink : \A j \in ink : k >= j)

EntryIsDir(l) == LET nm == EntryName(l) IN nm # <<>> /\ nm[Len(nm)] = SLASH

\* The run is past the root-line test.
InLoop == pc \in {"loop", "done"}

\* Number of non-blank lines of the file the run is done with.
Passed ==
  IF pc \in {"read", "first"} THEN 0
  ELSE Len(NonBlank) - Len(lines) + pos - 1

\* Entry line k is the directory entry that line n of NonBlank attaches to
\* by the parent rule: a directory entry before n, less deep than n, with
\* no entry between the two that is as shallow as k.
IsOpenDirFor(k, n) ==
  /\ k < n
  /\ IsEntryLine(NonBlank[k])
  /\ EntryIsDir(NonBlank[k])
  /\ EntryDepth(NonBlank[k]) < EntryDepth(NonBlank[n])
  /\ \A m \in (k + 1)..(n - 1) :
       IsEntryLine(NonBlank[m]) => EntryDepth(NonBlank[m]) > EntryDepth(NonBlank[k])

\* The dictionary entry line n belongs in: the one created by the most
\* recent such directory entry, or the root.
ParentByRule(n) ==
  LET open == {k \in 1..(n - 1) : IsOpenDirFor(k, n)} IN
    IF open = {} THEN RootId ELSE CHOOSE k \in open : \A j \in open : j <= k

\* The item entry line n stores: its name with None or its own dictionary.
ItemOf(n) ==
  [name |-> EntryName(NonBlank[n]),
   val |-> IF EntryIsDir(NonBlank[n]) THEN n ELSE NoDict]

\* In the dictionaries h, entry line n is a direct child of its parent by
\* the rule.
InsertedByRule(h, n) ==
  /\ ParentByRule(n) \in DOMAIN h
  /\ \E m \in 1..Len(h[ParentByRule(n)]) : h[ParentByRule(n)][m] = ItemOf(n)

\* The dictionaries that can be reached from the root dictionary.
RECURSIVE ReachFrom(_, _)
ReachFrom(h, ids) ==
  LET more == ids \cup (UNION {{h[p][m].val : m \in 1..Len(h[p])} : p \in ids} \ {NoDict}) IN
    IF more = ids THEN ids ELSE ReachFrom(h, more)
Reachable(h) == ReachFrom(h, {RootId})

\* Entry line n, or one of the directory entries above it by the rule, is
\* followed by an entry line of the same name under the same parent.
RECURSIVE ReplacedLater(_)
ReplacedLater(n) ==
  \/ \E j \in (n + 1)..Len(NonBlank) :
       /\ IsEntryLine(NonBlank[j])
       /\ EntryName(NonBlank[j]) = EntryName(NonBlank[n])
       /\ ParentByRule(j) = ParentByRule(n)
  \/ ParentByRule(n) # RootId /\ ReplacedLater(ParentByRule(n))

\* The first non-blank line is an entry line that ends with '/'.
EntryLineTakenAsRoot ==
  /\ NonBlank # <<>>
  /\ IsEntryLine(NonBlank[1])
  /\ NonBlank[1][Len(NonBlank[1])] = SLASH

\* nm is body without the whitespace around it.
IsNameWithin(nm, body) ==
  \E a \in 0..Len(body) : \E b \in a..Len(body) :
    /\ nm = SubSeq(body, a + 1, b)
    /\ \A k \in 1..a : IsSpace(body[k])
    /\ \A k \in (b + 1)..Len(body) : IsSpace(body[k])
    /\ nm # <<>> => ~IsSpace(nm[1]) /\ ~IsSpace(nm[Len(nm)])

\* The first non-blank line ends with '/'.
FirstEndsWithSlash ==
  NonBlank # <<>> /\ NonBlank[1][Len(NonBlank[1])] = SLASH

\* The first non-blank line is an entry line.
FirstIsEntry == NonBlank # <<>> /\ IsEntryLine(NonBlank[1])

\* ------------------------------------------------------------------------
\* C2 as stated: when the first non-blank line ends with '/', the project
\* name is that line without its trailing separator (one '/') and without
\* surrounding whitespace, and the tree is built from the remaining lines
\* only.  Violated by a first line that ends with more than one '/'.
C2_NameIsLineLessOneSeparator ==
  (InLoop /\ FirstEndsWithSlash) =>
    /\ project_name.some
    /\ IsNameWithin(project_name.val, SubSeq(NonBlank[1], 1, Len(NonBlank[1]) - 1))
    /\ pc = "done" => Tree(heap, RootId) = TreeOfLines(Tail(NonBlank))

\* C2 as amended: when the first non-blank line ends with '/', the project
\* name is that line without all of its trailing '/' characters and then
\* without surrounding whitespace, and the tree is built from the remaining
\* lines only.
C2_NameIsLineLessAllSeparators ==
  (InLoop /\ FirstEndsWithSlash) =>
    /\ project_name.some
    /\ \E c \in 0..(Len(NonBlank[1]) - 1) :
         /\ \A k \in (c + 1)..Len(NonBlank[1]) : NonBlank[1][k] = SLASH
         /\ c > 0 => NonBlank[1][c] # SLASH
         /\ IsNameWithin(project_name.val, SubSeq(NonBlank[1], 1, c))
    /\ pc = "done" => Tree(heap, RootId) = TreeOfLines(Tail(NonBlank))

\* A run that returned for a file whose first line is a padded root line
\* with two separators, followed by at least one stored entry.
C2_Witness ==
  /\ pc = "done"
  /\ FirstEndsWithSlash
  /\ Len(NonBlank[1]) >= 3
  /\ NonBlank[1][Len(NonBlank[1]) - 1] = SLASH
  /\ IsSpace(NonBlank[1][1])
  /\ project_name = Some(<<"a">>)
  /\ Tree(heap, RootId) # <<>>

\* ------------------------------------------------------------------------
\* C3: when the first non-blank line is an entry line, no project name is
\* returned and the entry of that line is a top-level child of the root,
\* whether it names a file or a directory.
C3_EntryLineIsNeverRootLine ==
  (pc = "done" /\ FirstIsEntry) =>
    /\ project_name = None
    /\ \E k \in 1..Len(heap[RootId]) :
         /\ heap[RootId][k].name = EntryName(NonBlank[1])
         /\ (heap[RootId][k].val # NoDict) <=> EntryIsDir(NonBlank[1])

\* ------------------------------------------------------------------------
\* C4: a file with no lines, or with empty and whitespace-only lines only,
\* raises no error and gives no project name and an empty root directory.
C4_EmptyInputGivesEmptyRoot ==
  (\A k \in 1..Len(input) : ~HasInk(input[k])) =>
    /\ pc # "error"
    /\ pc = "done" => project_name = None /\ Tree(heap, RootId) = <<>>

\* ------------------------------------------------------------------------
\* C1: every entry line is inserted as a direct child of the directory
\* created by the most recent preceding directory entry of smaller depth
\* that no later entry has closed, or of the root.
C1_ParentAttachment ==
  [][\A n \in 1..Len(NonBlank) :
       (Passed < n /\ n <= Passed' /\ IsEntryLine(NonBlank[n]))
         => InsertedByRule(heap', n)]_vars

\* The same statement for the files whose first non-blank line is not an
\* entry line ending with '/'.
C1_ParentAttachmentAfterRootLine ==
  [][\A n \in 1..Len(NonBlank) :
       (~EntryLineTakenAsRoot /\ Passed < n /\ n <= Passed'
        /\ IsEntryLine(NonBlank[n]))
         => InsertedByRule(heap', n)]_vars

\* ------------------------------------------------------------------------
\* C6: every entry line whose name ends with '/' is stored as a directory
\* node that is new and empty when inserted, under a key that keeps the
\* '/', and is pushed with its depth; every other entry line is stored as
\* a leaf and is not pushed.
StoredAs(h, n) == \E p \in DOMAIN h : \E m \in 1..Len(h[p]) : h[p][m] = ItemOf(n)

ClassifiedStep(n) ==
  IF EntryIsDir(NonBlank[n])
  THEN /\ n \notin DOMAIN heap
       /\ n \in DOMAIN heap'
       /\ heap'[n] = <<>>
       /\ StoredAs(heap', n)
       /\ ItemOf(n).name[Len(ItemOf(n).name)] = SLASH
       /\ stack' # <<>>
       /\ stack'[Len(stack')] = [level |-> EntryDepth(NonBlank[n]), dict |-> n]
  ELSE /\ DOMAIN heap' = DOMAIN heap
       /\ StoredAs(heap', n)
       /\ Len(stack') <= Len(stack)
       /\ stack' = SubSeq(stack, 1, Len(stack'))

\* C6: every entry line the run passes is classified and stored this way.
C6_Classification ==
  [][\A n \in 1..Len(NonBlank) :
       (Passed < n /\ n <= Passed' /\ IsEntryLine(NonBlank[n]))
         => ClassifiedStep(n)]_vars

\* C6 for the files whose first non-blank line is not an entry line ending
\* with '/'.
C6_ClassificationAfterRootLine ==
  [][\A n \in 1..Len(NonBlank) :
       (~EntryLineTakenAsRoot /\ Passed < n /\ n <= Passed'
        /\ IsEntryLine(NonBlank[n]))
         => ClassifiedStep(n)]_vars

\* ------------------------------------------------------------------------
\* C10: each directory on the stack above the root is stored as a direct
\* child of the directory below it on the stack, and in the returned tree
\* every entry line's node is present unless it or a directory above it was
\* replaced by a later entry of the same name under the same parent.
StackIsPath ==
  \A i \in 2..Len(stack) :
    \E m \in 1..Len(heap[stack[i - 1].dict]) :
      heap[stack[i - 1].dict][m].val = stack[i].dict

PresentOrReplaced(n) ==
  \/ ParentByRule(n) \in Reachable(heap) /\ InsertedByRule(heap, n)
  \/ ReplacedLater(n)

\* C10: the stack is a path of the tree, and no entry line's node is lost.
C10_StackIsPathOfTree ==
  /\ InLoop => StackIsPath
  /\ pc = "done" =>
       \A n \in 1..Len(NonBlank) : IsEntryLine(NonBlank[n]) => PresentOrReplaced(n)

\* C10 for the files whose first non-blank line is not an entry line ending
\* with '/'.
C10_StackIsPathAfterRootLine ==
  ~EntryLineTakenAsRoot => C10_StackIsPathOfTree

\* ------------------------------------------------------------------------
\* C5: a non-blank line after the first that is not an entry line is
\* skipped without error and changes neither the dictionaries nor the
\* stack, and the result of the parse equals the result for the same file
\* with every such line removed.
RECURSIVE DropMalformed(_, _)
DropMalformed(raw, first) ==
  IF raw = <<>> THEN <<>>
  ELSE IF ~HasInk(raw[1]) THEN <<raw[1]>> \o DropMalformed(Tail(raw), first)
  ELSE IF first \/ IsEntryLine(Trimmed(raw[1]))
       THEN <<raw[1]>> \o DropMalformed(Tail(raw), FALSE)
       ELSE DropMalformed(Tail(raw), FALSE)

\* C5: the three parts: same result as without the lines, no error because
\* of them, and a skipped line leaves dictionaries and stack as they were.
C5_MalformedLinesSkipped ==
  /\ [](pc = "done" => Returned = ParseTreeText(DropMalformed(input, TRUE)))
  /\ [](pc = "error" => ParseTreeText(DropMalformed(input, TRUE)).error)
  /\ [][(Passed' = Passed + 1 /\ Passed >= 1 /\ ~IsEntryLine(NonBlank[Passed + 1]))
         => (heap' = heap /\ stack' = stack /\ pc' = "loop")]_vars

\* A run that returned for a file with a line that is not an entry between
\* a directory entry and an entry nested in that directory.
C5_Witness ==
  /\ pc = "done"
  /\ \E m \in 2..Len(NonBlank) :
       /\ ~IsEntryLine(NonBlank[m])
       /\ \E n \in (m + 1)..Len(NonBlank) :
            /\ IsEntryLine(NonBlank[n])
            /\ ParentByRule(n) \in 1..(m - 1)
            /\ ParentByRule(n) \in Reachable(heap)
            /\ InsertedByRule(heap, n)

\* ------------------------------------------------------------------------
\* C7: the name stored for an entry line is the text after the glyph cut at
\* the first '#' and trimmed; no child name contains '#' or starts or ends
\* with whitespace; directory or file is decided on the stripped name.
CleanName(nm) ==
  /\ \A k \in 1..Len(nm) : nm[k] # HASH
  /\ nm # <<>> => ~IsSpace(nm[1]) /\ ~IsSpace(nm[Len(nm)])

\* C7: every stored name is clean, and the loop stores the stripped name of
\* the line with the kind decided on it.
C7_CommentStripping ==
  /\ [](\A p \in DOMAIN heap : \A m \in 1..Len(heap[p]) : CleanName(heap[p][m].name))
  /\ [][(pc = "loop" /\ pos <= Len(lines) /\ IsEntryLine(lines[pos]))
         => \E p \in DOMAIN heap' : \E m \in 1..Len(heap'[p]) :
              /\ heap'[p][m].name = EntryName(lines[pos])
              /\ (heap'[p][m].val # NoDict) <=> EntryIsDir(lines[pos])]_vars

\* A returned tree that holds the entry of a line with whitespace before
\* the name and a comment behind it.
C7_Witness ==
  /\ pc = "done"
  /\ \E n \in 1..Len(NonBlank) :
       /\ IsEntryLine(NonBlank[n])
       /\ IsSpace(NonBlank[n][EntryIndent(NonBlank[n]) + 5])
       /\ \E k \in 1..Len(NonBlank[n]) : NonBlank[n][k] = HASH
       /\ EntryName(NonBlank[n]) # <<>>
       /\ ParentByRule(n) \in Reachable(heap)
       /\ InsertedByRule(heap, n)

\* ------------------------------------------------------------------------
\* C8: no name appears twice among the direct children of a directory
\* node, and an entry line whose name is already a child of its parent
\* replaces that child: the stored node is the one the line creates, a
\* repeated directory is a new empty directory, and no error is raised.
NoDuplicateNames(d) ==
  \A i \in 1..Len(d) : \A j \in 1..Len(d) : d[i].name = d[j].name => i = j

NamesOf(d) == {d[m].name : m \in 1..Len(d)}

\* Dictionary p takes the item of entry line n and changes in nothing else.
TakesItem(p, n) ==
  /\ p \in DOMAIN heap
  /\ NamesOf(heap'[p]) = NamesOf(heap[p]) \cup {ItemOf(n).name}
  /\ Len(heap'[p]) = Cardinality(NamesOf(heap'[p]))
  /\ \E m \in 1..Len(heap'[p]) : heap'[p][m] = ItemOf(n)
  /\ \A m \in 1..Len(heap[p]) :
       heap[p][m].name # ItemOf(n).name => heap'[p][m] = heap[p][m]
  /\ \A q \in DOMAIN heap \ {p} : heap'[q] = heap[q]
  /\ ItemOf(n).val # NoDict => heap'[n] = <<>>

\* C8: names are unique in every dictionary, and an insertion replaces.
C8_LastOccurrenceWins ==
  /\ [](\A p \in DOMAIN heap : NoDuplicateNames(heap[p]))
  /\ [][(pc = "loop" /\ pos <= Len(lines) /\ IsEntryLine(lines[pos]))
         => (pc' = "loop" /\ \E p \in DOMAIN heap : TakesItem(p, Passed + 1))]_vars

\* A returned tree after a repeated directory entry replaced a directory
\* that had children: the replaced dictionary is no longer in the tree.
C8_Witness ==
  /\ pc = "done"
  /\ \E old \in DOMAIN heap :
       /\ old \notin Reachable(heap)
       /\ heap[old] # <<>>
       /\ \E new \in Reachable(heap) \ {RootId} :
            /\ new > old
            /\ heap[new] = <<>>
            /\ EntryName(NonBlank[new]) = EntryName(NonBlank[old])

\* ------------------------------------------------------------------------
\* C9: in the loop the stack is never empty, its bottom is (0, root), its
\* depths increase strictly from bottom to top, and after the pop step for
\* an entry of depth d every depth that stays on the stack is below d, so
\* the parent lookup succeeds.
StackShape ==
  /\ stack # <<>>
  /\ stack[1] = [level |-> 0, dict |-> RootId]
  /\ \A i \in 2..Len(stack) : stack[i].level > stack[i - 1].level

\* C9: the shape of the stack in the loop and after each pop step.
C9_StackInvariant ==
  /\ [](InLoop => StackShape)
  /\ [](pc = "error" => NonBlank = <<>>)
  /\ [][(pc = "loop" /\ pos <= Len(lines) /\ IsEntryLine(lines[pos]))
         => /\ EntryDepth(lines[pos]) >= 1
            /\ pc' = "loop"
            /\ \A i \in 1..Len(stack') :
                 \/ stack'[i].level < EntryDepth(lines[pos])
                 \/ /\ i = Len(stack')
                    /\ EntryIsDir(lines[pos])
                    /\ stack'[i].level = EntryDepth(lines[pos])]_vars

\* The stack right after an entry popped two directories and was pushed.
C9_Witness ==
  /\ pc = "loop"
  /\ pos = 4
  /\ Len(stack) = 2
  /\ stack[2].level = 1
  /\ Cardinality(DOMAIN heap) = 4

====
